---- MODULE Spec2Model ----
(***************************************************************************)
(* A model of gator/fragments.py: the paragraph segmenter, the paragraph   *)
(* classifier, the line filter and the counters built on them.             *)
(*                                                                         *)
(* A text is a sequence of one-character strings.  Every function of the   *)
(* source is an operator computed the way the source computes it           *)
(* (str.replace, re.findall of PARAGRAH_RE, str.strip, str.split,          *)
(* str.splitlines, str.count); a call of an entry point is an action that  *)
(* records the arguments and the returned value.                           *)
(***************************************************************************)
EXTENDS Integers, Sequences, FiniteSets

VARIABLES
    pc,               \* "start", or the name of the entry point that returned
    contents,         \* the literal text argument `contents`
    blank_replace,    \* the argument blank_replace of get_paragraphs
    is_file,          \* the value of file_for_checking.is_file()
    file_contents,    \* the value of file_for_checking.read_text()
    chosen_fragment,  \* the argument chosen_fragment of count_fragments
    paragraphs,       \* the local `paragraphs` of get_paragraphs (the candidates)
    result            \* the returned value

vars == <<pc, contents, blank_replace, is_file, file_contents,
          chosen_fragment, paragraphs, result>>

----------------------------------------------------------------------------
(* Bounds of the model *)

\* A content is the concatenation of at most MaxPieces pieces.
MaxPieces == 5

----------------------------------------------------------------------------
(* Module constants, fragments.py lines 14-23 *)

\* The backquote character (U+0060), which a TLA+ string cannot hold: it is
\* written as this token and, like every other character, is one element of a text.
BACKQUOTE == "BACKQUOTE"

CODE_FENCE_MARKER == <<BACKQUOTE, BACKQUOTE, BACKQUOTE>>

GATORGRADER_REPLACEMENT ==
    <<"G","A","T","O","R","G","R","A","D","E","R","_",
      "R","E","P","L","A","C","E","M","E","N","T">>

SECTION_MARKER == <<"#">>

NEWLINE == <<"\n">>

NOTHING == <<>>

SPACE == <<" ">>

DOUBLE_NEWLINE == NEWLINE \o NEWLINE

----------------------------------------------------------------------------
(* Character classes of the alphabet used by the contents below *)

\* The alphanumeric characters of the alphabet: the letters; "_", "#", the
\* backquote, " " and "\n" are not alphanumeric.
Alnum == {"a", "G", "A", "T", "O", "R", "D", "E", "P", "L", "C", "M", "N"}

\* The whitespace characters of the alphabet.
Whitespace == {" ", "\n"}

\* str.isalnum() of one character.
isalnum(ch) == ch \in Alnum

\* What str.strip(), str.split() and str.isspace() treat as whitespace.
iswhitespace(ch) == ch \in Whitespace

----------------------------------------------------------------------------
(* The input domain *)

Pieces ==
    { <<"a">>, SPACE, NEWLINE, DOUBLE_NEWLINE, SECTION_MARKER, CODE_FENCE_MARKER,
      GATORGRADER_REPLACEMENT }

RECURSIVE Concat(_)
Concat(ps) == IF ps = <<>> THEN <<>> ELSE Head(ps) \o Concat(Tail(ps))

Contents ==
    { Concat(ps) : ps \in UNION { [1..n -> Pieces] : n \in 0..MaxPieces } }

\* Texts of the file on disk, when there is one.
FileTexts ==
    { NOTHING,
      <<"a", "\n">>,
      <<"a", "a", "\n", " ", "\n", "a", "a", "a">> }

\* The fragments counted by count_fragments.
Fragments == { NOTHING, <<"a">>, <<"a", "a">> }

----------------------------------------------------------------------------
(* Library functions of Python used by the source *)

MinOf(S) == CHOOSE x \in S : \A y \in S : x <= y

MaxOf(S) == CHOOSE x \in S : \A y \in S : x >= y

\* str.startswith
startswith(s, prefix) ==
    /\ Len(s) >= Len(prefix)
    /\ SubSeq(s, 1, Len(prefix)) = prefix

\* The index of the leftmost occurrence of the non-empty sub in s that starts
\* at or after i, Len(s) + 1 if there is none.
next_match(s, i, sub) ==
    MinOf({ j \in i..(Len(s) - Len(sub) + 1) : SubSeq(s, j, j + Len(sub) - 1) = sub }
          \cup { Len(s) + 1 })

\* str.replace(old, new) for a non-empty old: left to right, non-overlapping;
\* each step copies the text up to the next occurrence and replaces it.
RECURSIVE replace_from(_, _, _, _)
replace_from(s, i, old, new) ==
    LET m == next_match(s, i, old)
    IN  IF m > Len(s) THEN SubSeq(s, i, Len(s))
        ELSE SubSeq(s, i, m - 1) \o new \o replace_from(s, m + Len(old), old, new)

replace(s, old, new) == replace_from(s, 1, old, new)

\* str.strip(): without leading and trailing whitespace.
strip(s) ==
    LET keep == { i \in 1..Len(s) : ~iswhitespace(s[i]) }
    IN  IF keep = {} THEN <<>> ELSE SubSeq(s, MinOf(keep), MaxOf(keep))

\* str.isspace(): at least one character and all of them whitespace.
isspace(s) == Len(s) > 0 /\ \A i \in 1..Len(s) : iswhitespace(s[i])

\* str.split() with no argument: the maximal runs of non-whitespace, word
\* by word: a word starts at the next character that is no whitespace and
\* ends before the next whitespace.
RECURSIVE split_from(_, _)
split_from(s, i) ==
    LET b == MinOf({ j \in i..Len(s) : ~iswhitespace(s[j]) } \cup { Len(s) + 1 })
        e == MinOf({ j \in b..Len(s) : iswhitespace(s[j]) } \cup { Len(s) + 1 })
    IN  IF b > Len(s) THEN <<>>
        ELSE <<SubSeq(s, b, e - 1)>> \o split_from(s, e)

split(s) == split_from(s, 1)

\* The index of the first newline of text at or after p, Len(text) + 1 if none.
next_newline(text, p) ==
    MinOf({ i \in p..Len(text) : text[i] = "\n" } \cup { Len(text) + 1 })

\* str.splitlines(keepends=False), line by line: a line ends at each newline;
\* what follows the last newline is a line only when it is not empty.
RECURSIVE splitlines_from(_, _)
splitlines_from(s, i) ==
    IF i > Len(s) THEN <<>>
    ELSE <<SubSeq(s, i, next_newline(s, i) - 1)>>
         \o splitlines_from(s, next_newline(s, i) + 1)

splitlines(s) == splitlines_from(s, 1)

\* str.count(sub): non-overlapping occurrences from left to right; len + 1
\* for the empty sub.
RECURSIVE count_from(_, _, _)
count_from(s, i, sub) ==
    LET m == next_match(s, i, sub)
    IN  IF m > Len(s) THEN 0 ELSE 1 + count_from(s, m + Len(sub), sub)

str_count(s, sub) == IF sub = <<>> THEN Len(s) + 1 ELSE count_from(s, 1, sub)

\* re.compile(PARAGRAH_RE).findall(text) for PARAGRAH_RE = (.+?\n\n|.+?$):
\* "." matches no newline, so from p the first alternative matches a non-empty
\* run of non-newlines followed by two newlines, and the second one a
\* non-empty run that reaches the end of the text or its final newline.
\* Where neither matches the scan moves on by one character.
RECURSIVE findall_from(_, _)
findall_from(text, p) ==
    IF p > Len(text) THEN <<>>
    ELSE LET n == next_newline(text, p)
         IN  IF n > p /\ n + 1 <= Len(text) /\ text[n + 1] = "\n"
             THEN <<SubSeq(text, p, n + 1)>> \o findall_from(text, n + 2)
             ELSE IF n > p /\ n >= Len(text)
                  THEN <<SubSeq(text, p, n - 1)>> \o findall_from(text, n)
                  ELSE findall_from(text, p + 1)

PARAGRAH_RE_findall(text) == findall_from(text, 1)

----------------------------------------------------------------------------
(* gator/fragments.py *)

\* is_paragraph, lines 26-40
is_paragraph(candidate) ==
    LET stripped == strip(candidate)
    IN  IF startswith(stripped, SECTION_MARKER) THEN FALSE
        ELSE IF startswith(stripped, CODE_FENCE_MARKER) THEN FALSE
        ELSE TRUE

\* get_paragraphs, lines 46-47: the text after the optional removal of spaces.
blank_replaced(text, replace_blank) ==
    IF replace_blank = TRUE THEN replace(text, SPACE, NOTHING) ELSE text

\* get_paragraphs, lines 49-51: double newlines kept, single newlines made spaces.
normalized(text) ==
    LET protected == replace(text, DOUBLE_NEWLINE, GATORGRADER_REPLACEMENT)
        spaced    == replace(protected, NEWLINE, SPACE)
    IN  replace(spaced, GATORGRADER_REPLACEMENT, DOUBLE_NEWLINE)

\* get_paragraphs, lines 46-53: the local `paragraphs`, the candidates.
candidates(text, replace_blank) ==
    PARAGRAH_RE_findall(normalized(blank_replaced(text, replace_blank)))

\* get_paragraphs, lines 43-61
get_paragraphs(text, replace_blank) ==
    SelectSeq(candidates(text, replace_blank), is_paragraph)

\* A variant of is_blank_line that forgets the isspace() test.
is_blank_line_empty_only(line) == line = NOTHING

\* is_blank_line, lines 83-87 (the line is never None; `is not NOTHING`
\* compares with the empty string, of which CPython keeps one object)
is_blank_line(line) ==
    IF line # NOTHING /\ ~isspace(line) THEN FALSE ELSE TRUE

is_not_blank_line(line) == ~is_blank_line(line)

\* get_line_list, lines 64-80 (a str has no decode: the line is used as it is)
get_line_list(content) == SelectSeq(splitlines(content), is_not_blank_line)

\* count_paragraphs, lines 90-94
count_paragraphs(text) == Len(get_paragraphs(text, TRUE))

\* count_words, lines 105-106: the words of one paragraph.
words_of(para) ==
    LET spaced == replace(para, NEWLINE, SPACE)
        alnums == [i \in 1..Len(spaced) |->
                      IF isalnum(spaced[i]) THEN spaced[i] ELSE " "]
    IN  split(alnums)

\* count_words, lines 103-107: the list word_counts.
word_counts_of(paras) == [i \in 1..Len(paras) |-> Len(words_of(paras[i]))]

\* A variant of min_word_count that returns the largest count.
max_word_count(word_counts) ==
    IF word_counts # <<>>
    THEN MaxOf({ word_counts[i] : i \in 1..Len(word_counts) })
    ELSE 0

\* count_words, lines 108-112: min(word_counts), 0 for the empty list.
min_word_count(word_counts) ==
    IF word_counts # <<>>
    THEN MinOf({ word_counts[i] : i \in 1..Len(word_counts) })
    ELSE 0

\* count_words, lines 97-112
count_words(text) == min_word_count(word_counts_of(get_paragraphs(text, FALSE)))

\* count_specified_fragment, lines 115-118
count_specified_fragment(text, fragment) == str_count(text, fragment)

\* count_fragments, lines 141-158, with count_specified_fragment as the
\* checking_function; file_exists is file_for_checking.is_file() and file_text
\* is what file_for_checking.read_text() returns.  `contents is NOTHING`
\* compares with the empty string, of which CPython keeps one object.
count_fragments(fragment, file_exists, file_text, text) ==
    IF ~file_exists /\ text # NOTHING
    THEN count_specified_fragment(text, fragment)
    ELSE IF file_exists /\ text = NOTHING
         THEN count_specified_fragment(file_text, fragment)
         ELSE 0

\* A variant of count_lines that reads the file whenever it exists.
count_lines_file_first(file_exists, file_text, text) ==
    IF file_exists
    THEN Len(get_line_list(file_text))
    ELSE Len(get_line_list(text))

\* count_lines, lines 177-190
count_lines(file_exists, file_text, text) ==
    IF ~file_exists /\ text # NOTHING
    THEN Len(get_line_list(text))
    ELSE IF file_exists /\ text = NOTHING
         THEN Len(get_line_list(file_text))
         ELSE 0

----------------------------------------------------------------------------
(* The state machine: one call of an entry point on a drawn input *)

Init ==
    /\ pc = "start"
    /\ contents \in Contents
    /\ blank_replace = TRUE
    /\ is_file = FALSE
    /\ file_contents = NOTHING
    /\ chosen_fragment = NOTHING
    /\ paragraphs = <<>>
    /\ result = <<>>

\* get_paragraphs(contents, blank_replace)
GetParagraphs ==
    /\ pc = "start"
    /\ \E b \in BOOLEAN :
          /\ blank_replace' = b
          /\ paragraphs' = candidates(contents, b)
          /\ result' = get_paragraphs(contents, b)
    /\ pc' = "get_paragraphs"
    /\ UNCHANGED <<contents, is_file, file_contents, chosen_fragment>>

\* count_paragraphs(contents)
CountParagraphs ==
    /\ pc = "start"
    /\ blank_replace' = TRUE
    /\ paragraphs' = candidates(contents, TRUE)
    /\ result' = count_paragraphs(contents)
    /\ pc' = "count_paragraphs"
    /\ UNCHANGED <<contents, is_file, file_contents, chosen_fragment>>

\* count_words(contents)
CountWords ==
    /\ pc = "start"
    /\ blank_replace' = FALSE
    /\ paragraphs' = candidates(contents, FALSE)
    /\ result' = count_words(contents)
    /\ pc' = "count_words"
    /\ UNCHANGED <<contents, is_file, file_contents, chosen_fragment>>

\* get_line_list(contents)
GetLineList ==
    /\ pc = "start"
    /\ result' = get_line_list(contents)
    /\ pc' = "get_line_list"
    /\ UNCHANGED <<contents, blank_replace, is_file, file_contents,
                   chosen_fragment, paragraphs>>

\* The file system as a call finds it: no file, or a file with one of FileTexts.
FileStates ==
    { <<FALSE, NOTHING>> } \cup { <<TRUE, t>> : t \in FileTexts }

\* count_lines(given_file, containing_directory, contents)
CountLines ==
    /\ pc = "start"
    /\ \E f \in FileStates :
          /\ is_file' = f[1]
          /\ file_contents' = f[2]
          /\ result' = count_lines(f[1], f[2], contents)
    /\ pc' = "count_lines"
    /\ UNCHANGED <<contents, blank_replace, chosen_fragment, paragraphs>>

\* count_fragments(chosen_fragment, count_specified_fragment, given_file,
\*                 containing_directory, contents)
CountFragments ==
    /\ pc = "start"
    /\ \E f \in FileStates, fragment \in Fragments :
          /\ is_file' = f[1]
          /\ file_contents' = f[2]
          /\ chosen_fragment' = fragment
          /\ result' = count_fragments(fragment, f[1], f[2], contents)
    /\ pc' = "count_fragments"
    /\ UNCHANGED <<contents, blank_replace, paragraphs>>

\* The segmenter and the counters built on it.
Next == GetParagraphs \/ CountParagraphs \/ CountWords

Spec == Init /\ [][Next]_vars

\* The line filter and the counters that select between a file and a literal text.
SourceNext == GetLineList \/ CountLines \/ CountFragments

SourceSpec == Init /\ [][SourceNext]_vars

----------------------------------------------------------------------------
(* Reference notions the properties are stated with *)

\* The number of maximal runs of alphanumeric characters of a text.
alnum_runs(text) ==
    Cardinality({ i \in 1..Len(text) :
                    isalnum(text[i]) /\ (i = 1 \/ ~isalnum(text[i - 1])) })

\* The positions where a line of a text starts: the first character and the
\* one after each newline; nothing starts after the last character.
line_starts(text) ==
    { b \in 1..Len(text) : b = 1 \/ text[b - 1] = "\n" }

\* The line that starts at b, without its newline.
line_at(text, b) ==
    LET ends == { e \in b..Len(text) : text[e] = "\n" } \cup { Len(text) + 1 }
    IN  SubSeq(text, b, MinOf(ends) - 1)

\* The starts of the lines that hold a character other than whitespace.
nonblank_line_starts(text) ==
    { b \in line_starts(text) :
        \E i \in 1..Len(line_at(text, b)) : ~iswhitespace(line_at(text, b)[i]) }

\* The lines starting at the positions S, in source order.
RECURSIVE lines_from(_, _)
lines_from(text, S) ==
    IF S = {} THEN <<>>
    ELSE <<line_at(text, MinOf(S))>> \o lines_from(text, S \ { MinOf(S) })

\* The entry points that select between the file and the literal content.
Selecting == {"count_lines", "count_fragments"}

\* The count a counter of the selecting entry points computes from one text.
count_of(text) ==
    IF pc = "count_lines"
    THEN Len(get_line_list(text))
    ELSE count_specified_fragment(text, chosen_fragment)

\* A text with each newline read as a space.
newlines_as_spaces(text) ==
    [i \in 1..Len(text) |-> IF text[i] = "\n" THEN " " ELSE text[i]]

\* A text holds a character other than whitespace.
non_blank(text) == \E i \in 1..Len(text) : ~iswhitespace(text[i])

\* The trimmed text starts with neither the header nor the code fence marker.
marker_free(text) ==
    /\ ~startswith(strip(text), SECTION_MARKER)
    /\ ~startswith(strip(text), CODE_FENCE_MARKER)

\* The text occurs in another one.
occurs_in(sub, text) ==
    \E i \in 1..(Len(text) - Len(sub) + 1) : SubSeq(text, i, i + Len(sub) - 1) = sub

\* All the lines of a text, the blank ones too, in source order.
source_lines(text) == lines_from(text, line_starts(text))

is_header_line(line) == startswith(strip(line), SECTION_MARKER)

is_fence_line(line) == startswith(strip(line), CODE_FENCE_MARKER)

\* The fence lines pair up, first with second, third with fourth: line k is
\* a fence line or has an odd number of fence lines above it.
in_fenced_block(lines, k) ==
    \/ is_fence_line(lines[k])
    \/ Cardinality({ j \in 1..(k - 1) : is_fence_line(lines[j]) }) % 2 = 1

\* A text that is empty, or has headers or fenced code blocks and nothing
\* else: every fence that opens is closed, and every line is blank, a header
\* line, or a line of a fenced block.
only_headers_and_fences(text) ==
    LET lines == source_lines(text)
        ks    == 1..Len(lines)
    IN  \/ text = NOTHING
        \/ /\ \E k \in ks : is_header_line(lines[k]) \/ is_fence_line(lines[k])
           /\ Cardinality({ k \in ks : is_fence_line(lines[k]) }) % 2 = 0
           /\ \A k \in ks :
                 \/ ~non_blank(lines[k])
                 \/ in_fenced_block(lines, k)
                 \/ is_header_line(lines[k])

\* The index of the first newline at or after i that another newline
\* follows, Len(text) + 1 if there is none.
next_boundary(text, i) ==
    MinOf({ j \in i..(Len(text) - 1) : text[j] = "\n" /\ text[j + 1] = "\n" }
          \cup { Len(text) + 1 })

\* The blocks of a text: what lies between its double newlines, taken from
\* left to right.
RECURSIVE blocks_from(_, _)
blocks_from(text, i) ==
    LET b == next_boundary(text, i)
    IN  IF b > Len(text) THEN <<SubSeq(text, i, Len(text))>>
        ELSE <<SubSeq(text, i, b - 1)>> \o blocks_from(text, b + 2)

blocks_of(text) == blocks_from(text, 1)

\* A text made of non-blank, marker-free blocks with exactly one double
\* newline between two of them.
made_of_blocks(text) ==
    \A k \in 1..Len(blocks_of(text)) :
        non_blank(blocks_of(text)[k]) /\ marker_free(blocks_of(text)[k])

\* The direct scanner for double-newline boundaries: one pass from left to
\* right that closes a candidate at each pair of newlines, keeps the pair
\* with it, and reads any other newline as a space; a pair that follows a
\* pair closes no candidate.
RECURSIVE scan_from(_, _)
scan_from(text, i) ==
    LET b == next_boundary(text, i)
    IN  IF i > Len(text) THEN <<>>
        ELSE IF b > Len(text) THEN <<newlines_as_spaces(SubSeq(text, i, Len(text)))>>
        ELSE IF b = i THEN scan_from(text, b + 2)
        ELSE <<newlines_as_spaces(SubSeq(text, i, b - 1)) \o DOUBLE_NEWLINE>>
             \o scan_from(text, b + 2)

direct_scan(text) == scan_from(text, 1)

----------------------------------------------------------------------------
(* Properties *)

\* C1: count_words returns the minimum, over the candidates of the
\* blank_replace=False segmentation that pass is_paragraph, of the number of
\* maximal alphanumeric runs of the paragraph, and 0 when no paragraph
\* survives; where two paragraphs differ it is below the maximum (and so
\* below the sum).
C1_CountWordsIsMinimum ==
    pc = "count_words" =>
        LET paras == SelectSeq(paragraphs, is_paragraph)
            runs  == { alnum_runs(paras[i]) : i \in 1..Len(paras) }
        IN  /\ blank_replace = FALSE
            /\ result = IF runs = {} THEN 0 ELSE MinOf(runs)
            /\ Cardinality(runs) > 1 => result < MaxOf(runs)

\* C1 witness: count_words has run on a content with two paragraphs that
\* hold words, in different numbers, and returned the smaller number.
C1_Witness ==
    /\ pc = "count_words"
    /\ LET paras == SelectSeq(paragraphs, is_paragraph)
       IN  /\ Len(paras) >= 2
           /\ \E i, j \in 1..Len(paras) :
                 /\ 1 <= alnum_runs(paras[i])
                 /\ alnum_runs(paras[i]) < alnum_runs(paras[j])
                 /\ result = alnum_runs(paras[i])

\* C6: with no existing file, count_lines of a literal content is the number
\* of its lines that hold a character other than whitespace, and
\* get_line_list returns those lines, unchanged and in source order.
C6_LineFilter ==
    /\ (pc = "count_lines" /\ ~is_file) =>
           result = Cardinality(nonblank_line_starts(contents))
    /\ pc = "get_line_list" =>
           result = lines_from(contents, nonblank_line_starts(contents))

\* C6 witness: count_lines has counted a literal content with a counted
\* line, an empty line and a line made only of spaces.
C6_Witness ==
    /\ pc = "count_lines"
    /\ ~is_file
    /\ result >= 1
    /\ \E b \in line_starts(contents) : line_at(contents, b) = <<>>
    /\ \E b \in line_starts(contents) : line_at(contents, b) = SPACE

\* C7 as stated: an existing file is counted also when a literal content is
\* supplied with it, and the literal content, when there is one, is counted
\* when no file exists.
C7_FileFavoured ==
    pc \in Selecting =>
        /\ is_file => result = count_of(file_contents)
        /\ (~is_file /\ contents # NOTHING) => result = count_of(contents)

\* C7 amended: the file is counted when it exists and no literal content is
\* supplied; the literal content is counted when it is supplied and no file
\* exists; with both, or with neither, the count is 0.
C7_SourceSelection ==
    pc \in Selecting =>
        /\ (is_file /\ contents = NOTHING) => result = count_of(file_contents)
        /\ (~is_file /\ contents # NOTHING) => result = count_of(contents)
        /\ (is_file /\ contents # NOTHING) => result = 0
        /\ (~is_file /\ contents = NOTHING) => result = 0

\* C7 witness: count_lines was given an existing file with counted lines
\* together with a literal content with counted lines, and returned 0.
C7_Witness ==
    /\ pc = "count_lines"
    /\ is_file
    /\ Len(get_line_list(file_contents)) > 0
    /\ Len(get_line_list(contents)) > 0
    /\ result = 0

\* C2: count_paragraphs is never negative, and it is 0 for a content that
\* is empty or has only headers and fenced code blocks, whatever the number
\* of newlines between or after them and whatever the fenced block holds.
C2_NoParagraphInHeadersAndFences ==
    pc = "count_paragraphs" =>
        /\ result >= 0
        /\ only_headers_and_fences(contents) => result = 0

\* C3: for a content made of k >= 1 non-blank, marker-free blocks with one
\* double newline between two of them, get_paragraphs with
\* blank_replace=False returns k paragraphs, the k-th being the k-th block
\* with its newlines read as spaces, and with the word count of that block.
C3_MultiLineCollapse ==
    (pc = "get_paragraphs" /\ blank_replace = FALSE /\ made_of_blocks(contents)) =>
        LET blocks == blocks_of(contents)
        IN  /\ Len(result) = Len(blocks)
            /\ \A k \in 1..Len(blocks) :
                  /\ strip(result[k]) = strip(newlines_as_spaces(blocks[k]))
                  /\ alnum_runs(result[k]) = alnum_runs(newlines_as_spaces(blocks[k]))

\* C4: the split of the normalized text yields no candidate for an empty
\* content and, for a non-empty content without a double newline, one
\* candidate, the whole normalized input (the content being the text the
\* normalization receives, after the optional removal of the spaces).
C4_SegmenterEdgeCases ==
    pc = "get_paragraphs" =>
        LET text == blank_replaced(contents, blank_replace)
        IN  /\ text = NOTHING => paragraphs = <<>>
            /\ (text # NOTHING /\ ~occurs_in(DOUBLE_NEWLINE, text)) =>
                   paragraphs = <<newlines_as_spaces(text)>>

\* C5: for a non-blank content without a double newline whose trimmed text
\* starts with no marker, get_paragraphs with blank_replace=False returns
\* one paragraph, which trimmed is the content trimmed.
C5_IsolatedParagraphIdempotent ==
    ( /\ pc = "get_paragraphs"
      /\ blank_replace = FALSE
      /\ non_blank(contents)
      /\ ~occurs_in(DOUBLE_NEWLINE, contents)
      /\ marker_free(contents) ) =>
        /\ Len(result) = 1
        /\ strip(result[1]) = strip(contents)

\* C8: when the named file does not exist and no literal content is
\* supplied, count_lines and count_fragments do not end with the count 0 of
\* a valid empty content.
C8_MissingFileIsNotZero ==
    ( /\ pc \in Selecting
      /\ ~is_file
      /\ contents = NOTHING ) =>
        result # 0

\* C9: the normalization introduces no paragraph boundary: the normalized
\* text has as many double newlines as the text it was given, and the split
\* yields as many candidates as the direct scan of that text for
\* double-newline boundaries.
C9_SentinelIntroducesNoBoundary ==
    pc = "get_paragraphs" =>
        LET text == blank_replaced(contents, blank_replace)
        IN  /\ str_count(normalized(text), DOUBLE_NEWLINE)
                 = str_count(text, DOUBLE_NEWLINE)
            /\ Len(paragraphs) = Len(direct_scan(text))

\* C10: count_paragraphs (blank_replace=True) finds as many paragraphs as
\* the blank_replace=False segmentation count_words takes its minimum over.
C10_NoDriftBetweenModes ==
    /\ pc = "count_paragraphs" => result = Len(get_paragraphs(contents, FALSE))
    /\ pc = "count_words" =>
           Len(SelectSeq(paragraphs, is_paragraph)) = count_paragraphs(contents)

----------------------------------------------------------------------------
(* What holds of the contents that do not hold the sentinel text *)

sentinel_free(text) == ~occurs_in(GATORGRADER_REPLACEMENT, text)

\* The split of the normalized text is the direct scan.
SentinelFree_SplitIsDirectScan ==
    (pc = "get_paragraphs" /\ sentinel_free(contents)) =>
        paragraphs = direct_scan(blank_replaced(contents, blank_replace))

SentinelFree_MultiLineCollapse == sentinel_free(contents) => C3_MultiLineCollapse

SentinelFree_SegmenterEdgeCases == sentinel_free(contents) => C4_SegmenterEdgeCases

\* One paragraph, the content trimmed with its newlines read as spaces.
SentinelFree_IsolatedParagraph ==
    ( /\ pc = "get_paragraphs"
      /\ blank_replace = FALSE
      /\ sentinel_free(contents)
      /\ non_blank(contents)
      /\ ~occurs_in(DOUBLE_NEWLINE, contents)
      /\ marker_free(contents) ) =>
        /\ Len(result) = 1
        /\ strip(result[1]) = strip(newlines_as_spaces(contents))

====
